---- MODULE Spec2Model ----
(***************************************************************************)
(* A model of climate.c: main's loop over the file arguments, analyze_file *)
(* folding each line into the array of per-state accumulators, and         *)
(* print_report.                                                           *)
(*                                                                         *)
(* Representation.                                                         *)
(*  - A line is the sequence of tokens strtok(line, "\t\n") yields for it, *)
(*    so a well-formed line has 9 tokens, an empty line has none.          *)
(*  - A state code is a positive integer (a string of at most 2 chars);    *)
(*    the empty string is code 0.                                          *)
(*  - Numeric tokens are fixed-point integers: the timestamp in            *)
(*    milliseconds, humidity / cloud cover / snow / lightning in tenths    *)
(*    ("1.0" is 10), the temperature in hundredths of a Kelvin.  Converted *)
(*    temperatures are thousandths of a degree Fahrenheit.  The rounding   *)
(*    of float and long double is not modelled.                            *)
(*  - A pointer is a sequence: <<>> is NULL, <<s>> points to the struct s. *)
(***************************************************************************)
EXTENDS Integers, Sequences, FiniteSets, TLC

\* ---------------------------------------------------------------- bounds
MaxArgs == 2          \* at most this many file arguments (argc <= MaxArgs + 1)
MaxLines == 3         \* at most this many lines drawn freely over the run

\* ------------------------------------------------------ program constants
NUM_STATES == 50
EXIT_SUCCESS == 0
EXIT_FAILURE == 1
NFIELDS == 9          \* fields of a TDV line
NO_STATUS == 0 - 1    \* the process has not terminated yet

NULL == <<>>

\* Token positions of a line, in the order strtok yields them.
F_CODE == 1
F_TIME == 2
F_HUMIDITY == 4
F_SNOW == 5
F_CLOUD == 6
F_LIGHTNING == 7
F_TEMPERATURE == 9

\* The tokens analyze_file dereferences (geolocation, 3, and pressure, 8, are
\* fetched by strtok and never looked at).
UsedFields == {F_CODE, F_TIME, F_HUMIDITY, F_SNOW, F_CLOUD, F_LIGHTNING, F_TEMPERATURE}

\* ------------------------------------------------------------ conversions
\* atoll / atof of a token: the number the text denotes.  Of a missing token
\* (strtok returned NULL) under a C library that reads NULL as "": 0.
Num(ln, k) == IF k <= Len(ln) THEN ln[k] ELSE 0

\* atoi of a token such as "1.0" stops at the '.': the integer part.
Atoi(ln, k) == Num(ln, k) \div 10

\* atoll(token) / 1000: milliseconds truncated to seconds.
Timestamp(ln) == Num(ln, F_TIME) \div 1000

\* atof(token) * 1.8 - 459.67, in thousandths of a degree.
Fahrenheit(ln) == Num(ln, F_TEMPERATURE) * 18 - 459670

\* The code token; a missing one read as "".
Code(ln) == Num(ln, F_CODE)

\* The first token analyze_file dereferences that the line does not have
\* (NFIELDS + 1 when it has them all).
Fault(ln) ==
    LET missing == {k \in UsedFields : k > Len(ln)}
    IN IF missing = {} THEN NFIELDS + 1
       ELSE CHOOSE k \in missing : \A m \in missing : k <= m

\* ------------------------------------------------------------------ input
\* Field values of the lines the model reads: <<timestamp ms, humidity,
\* snow, cloud cover, lightning, temperature>>.  V1 and V3 carry the same
\* temperature in different seconds; V1 and V2 fall into the same second.
V1 == <<1000, 500,  0, 400, 10, 28315>>
V2 == <<1999, 480, 10, 600,  0, 29315>>
V3 == <<2000, 520, 10, 450, 10, 28315>>

MkLine(c, v) == <<c, v[1], 0, v[2], v[3], v[4], v[5], 0, v[6]>>

\* The freely drawn well-formed lines: one low code and the two codes just
\* beyond the ones BulkFile holds.
WellFormedLines ==
    {MkLine(1, v) : v \in {V1, V2, V3}}
        \cup {MkLine(NUM_STATES, V1), MkLine(NUM_STATES + 1, V2)}

\* Lines with fewer than NFIELDS tokens: an empty line, and a code alone.
MalformedLines == {SubSeq(MkLine(1, V2), 1, n) : n \in {0, 1}}

Lines == WellFormedLines \cup MalformedLines

WellFormed(ln) == Len(ln) = NFIELDS

\* A file holding one well-formed line for each of the codes
\* 1 .. NUM_STATES - 1, in that order.
BulkFile == [c \in 1 .. (NUM_STATES - 1) |-> MkLine(c, V1)]

\* ------------------------------------------------------------------ state
VARIABLES
    pc,           \* where the process is: "main", "loop", "read", "done", "crashed"
    argc,         \* main's argc
    i,            \* main's loop variable
    line,         \* analyze_file's buffer: the tokens of the line fgets read last
    states,       \* main's array states[NUM_STATES], indexed from 1
    exit_status,  \* the process's exit status, NO_STATUS while it runs
    out,          \* what was printed, in order
    pending,      \* the lines the first opened file is known to start with
    nlines,       \* the number of lines drawn freely so far
    history       \* the lines analyze_file's loop body has completed, in order,
                  \* each with the argument index of its file

vars == <<pc, argc, i, line, states, exit_status, out, pending, nlines, history>>

\* struct climate_info
climate_info(c, n, st, sh, sn, sc, ls, mx, mn, mxt, mnt) ==
    [code |-> c, num_records |-> n, sum_temperature |-> st, sum_humidity |-> sh,
     snow_records |-> sn, sum_cloud_cover |-> sc, lightning_strikes |-> ls,
     max_temperature |-> mx, min_temperature |-> mn,
     max_timestamp |-> mxt, min_timestamp |-> mnt]

\* What freshly malloc'ed memory may hold.
Indeterminate ==
    {climate_info(0, 0, 0, 0, 0, 0, 0, a, b, 0, 0) : a \in {0, 1}, b \in {0, 1}}

\* NewInfo with line 186 setting num_records to 0.
NewInfoUncounted(ln, f, j) ==
    LET temperature == Fahrenheit(ln)
        timestamp == Timestamp(ln)
    IN climate_info(
        IF f > F_CODE THEN Code(ln) ELSE j.code,
        IF f > F_CODE THEN 0 ELSE j.num_records,
        IF f > F_TEMPERATURE THEN temperature ELSE j.sum_temperature,
        IF f > F_HUMIDITY THEN Num(ln, F_HUMIDITY) ELSE j.sum_humidity,
        IF f > F_SNOW THEN Atoi(ln, F_SNOW) ELSE j.snow_records,
        IF f > F_CLOUD THEN Num(ln, F_CLOUD) ELSE j.sum_cloud_cover,
        IF f > F_LIGHTNING THEN Atoi(ln, F_LIGHTNING) ELSE j.lightning_strikes,
        IF f > F_TEMPERATURE THEN temperature ELSE j.max_temperature,
        IF f > F_TEMPERATURE THEN temperature ELSE j.min_temperature,
        IF f > F_TIME THEN timestamp ELSE j.max_timestamp,
        IF f > F_TIME THEN timestamp ELSE j.min_timestamp)

\* The struct analyze_file fills in for the first line of a code (lines
\* 185-199), stopped before the statement that dereferences token f; j is
\* what malloc returned.  f = NFIELDS + 1: all statements run.
NewInfo(ln, f, j) ==
    LET temperature == Fahrenheit(ln)
        timestamp == Timestamp(ln)
    IN climate_info(
        IF f > F_CODE THEN Code(ln) ELSE j.code,
        IF f > F_CODE THEN 1 ELSE j.num_records,
        IF f > F_TEMPERATURE THEN temperature ELSE j.sum_temperature,
        IF f > F_HUMIDITY THEN Num(ln, F_HUMIDITY) ELSE j.sum_humidity,
        IF f > F_SNOW THEN Atoi(ln, F_SNOW) ELSE j.snow_records,
        IF f > F_CLOUD THEN Num(ln, F_CLOUD) ELSE j.sum_cloud_cover,
        IF f > F_LIGHTNING THEN Atoi(ln, F_LIGHTNING) ELSE j.lightning_strikes,
        IF f > F_TEMPERATURE THEN temperature ELSE j.max_temperature,
        IF f > F_TEMPERATURE THEN temperature ELSE j.min_temperature,
        IF f > F_TIME THEN timestamp ELSE j.max_timestamp,
        IF f > F_TIME THEN timestamp ELSE j.min_timestamp)

\* IsNewMax with >= for >: a tie replaces the maximum's timestamp.
IsNewMaxOrTie(temperature, s) == temperature >= s.max_temperature

\* Lines 216 and 220: the comparisons that replace an extremum.
IsNewMax(temperature, s) == temperature > s.max_temperature
IsNewMin(temperature, s) == temperature < s.min_temperature

\* FoldInfo with the snow and the lightning token exchanged.
FoldInfoSwapped(s, ln, f) ==
    LET temperature == Fahrenheit(ln)
        timestamp == Timestamp(ln)
        newmax == f > F_TEMPERATURE /\ temperature > s.max_temperature
        newmin == f > F_TEMPERATURE /\ temperature < s.min_temperature
    IN climate_info(
        s.code,
        s.num_records + 1,
        IF f > F_TEMPERATURE THEN s.sum_temperature + temperature ELSE s.sum_temperature,
        IF f > F_HUMIDITY THEN s.sum_humidity + Num(ln, F_HUMIDITY) ELSE s.sum_humidity,
        IF f > F_SNOW THEN s.snow_records + Atoi(ln, F_LIGHTNING) ELSE s.snow_records,
        IF f > F_CLOUD THEN s.sum_cloud_cover + Num(ln, F_CLOUD) ELSE s.sum_cloud_cover,
        IF f > F_LIGHTNING THEN s.lightning_strikes + Atoi(ln, F_SNOW)
                           ELSE s.lightning_strikes,
        IF newmax THEN temperature ELSE s.max_temperature,
        IF newmin THEN temperature ELSE s.min_temperature,
        IF newmax THEN timestamp ELSE s.max_timestamp,
        IF newmin THEN timestamp ELSE s.min_timestamp)

\* The struct s after analyze_file folds a further line of its code into it
\* (lines 205-223), stopped before the statement that dereferences token f.
FoldInfo(s, ln, f) ==
    LET temperature == Fahrenheit(ln)
        timestamp == Timestamp(ln)
        newmax == f > F_TEMPERATURE /\ IsNewMax(temperature, s)
        newmin == f > F_TEMPERATURE /\ IsNewMin(temperature, s)
    IN climate_info(
        s.code,
        s.num_records + 1,
        IF f > F_TEMPERATURE THEN s.sum_temperature + temperature ELSE s.sum_temperature,
        IF f > F_HUMIDITY THEN s.sum_humidity + Num(ln, F_HUMIDITY) ELSE s.sum_humidity,
        IF f > F_SNOW THEN s.snow_records + Atoi(ln, F_SNOW) ELSE s.snow_records,
        IF f > F_CLOUD THEN s.sum_cloud_cover + Num(ln, F_CLOUD) ELSE s.sum_cloud_cover,
        IF f > F_LIGHTNING THEN s.lightning_strikes + Atoi(ln, F_LIGHTNING)
                           ELSE s.lightning_strikes,
        IF newmax THEN temperature ELSE s.max_temperature,
        IF newmin THEN temperature ELSE s.min_temperature,
        IF newmax THEN timestamp ELSE s.max_timestamp,
        IF newmin THEN timestamp ELSE s.min_timestamp)

\* Slot without the strcmp of line 204: the first NULL slot.
SlotFirstFree(arr, token) ==
    LET hit == {k \in 1 .. NUM_STATES : arr[k] = NULL}
    IN IF hit = {} THEN 0 ELSE CHOOSE k \in hit : \A m \in hit : k <= m

\* Slot with the last slot taken when the loop runs off the array.
SlotOverrun(arr, token) ==
    LET hit == {k \in 1 .. NUM_STATES : arr[k] = NULL \/ arr[k][1].code = token}
    IN IF hit = {} THEN NUM_STATES ELSE CHOOSE k \in hit : \A m \in hit : k <= m

\* The index at which the for loop of lines 176-227 breaks for a code token:
\* the first slot that is NULL or holds the code; 0 when the loop runs off
\* the end of the array.
Slot(arr, token) ==
    LET hit == {k \in 1 .. NUM_STATES : arr[k] = NULL \/ arr[k][1].code = token}
    IN IF hit = {} THEN 0 ELSE CHOOSE k \in hit : \A m \in hit : k <= m

\* The array after the loop body ran for a line whose dereferences all
\* returned (f = NFIELDS + 1), or up to the faulting one; j is what malloc
\* returned if the line allocates.
Route(arr, ln, f, j) ==
    LET k == Slot(arr, Code(ln))
    IN IF k = 0 THEN arr
       ELSE IF arr[k] = NULL THEN [arr EXCEPT ![k] = <<NewInfo(ln, f, j)>>]
       ELSE [arr EXCEPT ![k] = <<FoldInfo(arr[k][1], ln, f)>>]

\* print_report: the codes of the "States found:" line, then one block per
\* non-NULL slot, both in index order.
Average(sum, n) == sum \div n

Block(s) ==
    [code |-> s.code, num_records |-> s.num_records,
     avg_humidity |-> Average(s.sum_humidity, s.num_records),
     avg_temperature |-> Average(s.sum_temperature, s.num_records),
     max_temperature |-> s.max_temperature, max_timestamp |-> s.max_timestamp,
     min_temperature |-> s.min_temperature, min_timestamp |-> s.min_timestamp,
     lightning_strikes |-> s.lightning_strikes, snow_records |-> s.snow_records,
     avg_cloud_cover |-> Average(s.sum_cloud_cover, s.num_records)]

\* NonNull with the loops of print_report running from the last slot down.
RECURSIVE NonNullBackwards(_, _)
NonNullBackwards(arr, k) ==
    IF k > NUM_STATES THEN <<>>
    ELSE IF arr[k] # NULL THEN NonNullBackwards(arr, k + 1) \o <<arr[k][1]>>
    ELSE NonNullBackwards(arr, k + 1)

RECURSIVE NonNull(_, _)
NonNull(arr, k) ==
    IF k > NUM_STATES THEN <<>>
    ELSE IF arr[k] # NULL THEN <<arr[k][1]>> \o NonNull(arr, k + 1)
    ELSE NonNull(arr, k + 1)

print_report(arr) ==
    LET found == NonNull(arr, 1)
    IN [kind |-> "report",
        codes |-> [k \in 1 .. Len(found) |-> found[k].code],
        blocks |-> [k \in 1 .. Len(found) |-> Block(found[k])]]

\* ReportWanted without the test of line 137.
ReportAlways(arr) == TRUE

\* main, line 137: *states != NULL.
ReportWanted(arr) == arr[1] # NULL

Msg(kind, arg) == [kind |-> kind, arg |-> arg]

\* ---------------------------------------------------------------- actions
Init ==
    /\ pc = "main"
    /\ argc \in 1 .. (MaxArgs + 1)
    /\ i = 0
    /\ line = <<>>
    /\ states = [k \in 1 .. NUM_STATES |-> NULL]
    /\ exit_status = NO_STATUS
    /\ out = <<>>
    /\ pending \in (IF argc = 2 THEN {<<>>, BulkFile} ELSE {<<>>})
    /\ nlines = 0
    /\ history = <<>>

\* main, lines 105-108: no file argument.
Usage ==
    /\ pc = "main"
    /\ argc < 2
    /\ out' = Append(out, Msg("usage", 0))
    /\ exit_status' = EXIT_FAILURE
    /\ pc' = "done"
    /\ UNCHANGED <<argc, i, line, states, pending, nlines, history>>

\* main, lines 112-121: the array is set up and the loop entered.
EnterLoop ==
    /\ pc = "main"
    /\ argc >= 2
    /\ i' = 1
    /\ pc' = "loop"
    /\ UNCHANGED <<argc, line, states, exit_status, out, pending, nlines, history>>

\* OpenFail with return EXIT_FAILURE for continue.
OpenFailAbort ==
    /\ pc = "loop"
    /\ i < argc
    /\ out' = Append(out, Msg("error", i))
    /\ exit_status' = EXIT_FAILURE
    /\ pc' = "done"
    /\ UNCHANGED <<argc, i, line, states, pending, nlines, history>>

\* main, lines 122-126: fopen fails; continue.
OpenFail ==
    /\ pc = "loop"
    /\ i < argc
    /\ out' = Append(out, Msg("error", i))
    /\ i' = i + 1
    /\ UNCHANGED <<pc, argc, line, states, exit_status, pending, nlines, history>>

\* main, lines 122-128: fopen succeeds; analyze_file is called.
OpenOk ==
    /\ pc = "loop"
    /\ i < argc
    /\ out' = Append(out, Msg("opening", i))
    /\ pc' = "read"
    /\ UNCHANGED <<argc, i, line, states, exit_status, pending, nlines, history>>

\* fgets returns `line`: the next line the file is known to hold, else a
\* freely drawn one.
Fgets(ln) ==
    /\ pc = "read"
    /\ line' = ln
    /\ IF pending # <<>>
       THEN /\ ln = Head(pending)
            /\ pending' = Tail(pending)
            /\ nlines' = nlines
       ELSE /\ nlines < MaxLines
            /\ ln \in Lines
            /\ pending' = pending
            /\ nlines' = nlines + 1

\* analyze_file, lines 163-229, one iteration: every dereference returns
\* (the line has all its tokens, or the C library reads NULL as ""), and
\* malloc, if called, succeeds.
Ingest(ln) ==
    /\ Fgets(ln)
    /\ states' = Route(states, ln, NFIELDS + 1, CHOOSE j \in Indeterminate : TRUE)
    /\ history' = Append(history, [arg |-> i, tokens |-> ln])
    /\ UNCHANGED <<pc, argc, i, exit_status, out>>

\* analyze_file, lines 178-183: malloc returns NULL; exit(EXIT_FAILURE).
AllocFail(ln) ==
    /\ Fgets(ln)
    /\ Slot(states, Code(ln)) # 0
    /\ states[Slot(states, Code(ln))] = NULL
    /\ out' = Append(out, Msg("alloc_error", 0))
    /\ exit_status' = EXIT_FAILURE
    /\ pc' = "done"
    /\ UNCHANGED <<argc, i, states, history>>

\* analyze_file, one iteration on a line that lacks a token the code
\* dereferences, with a C library that faults on NULL: the process dies at
\* that statement, after the writes that precede it.  An empty line faults
\* in strcmp at slot 0, or in strcpy after the malloc if slot 0 is NULL; any
\* other line faults once the loop has found its slot.
Crash(ln) ==
    /\ Fgets(ln)
    /\ Fault(ln) <= NFIELDS
    /\ Fault(ln) = F_CODE \/ Slot(states, Code(ln)) # 0
    /\ \E j \in Indeterminate :
         states' = IF Fault(ln) = F_CODE /\ states[1] # NULL
                   THEN states
                   ELSE Route(states, ln, Fault(ln), j)
    /\ pc' = "crashed"
    /\ UNCHANGED <<argc, i, exit_status, out, history>>

\* analyze_file, line 163: fgets returns NULL; main, line 129 and ++i.
EndOfFile ==
    /\ pc = "read"
    /\ pending = <<>>
    /\ i' = i + 1
    /\ pc' = "loop"
    /\ UNCHANGED <<argc, line, states, exit_status, out, pending, nlines, history>>

\* main, lines 137-141: the loop is over; report if states[0] is not NULL.
Finish ==
    /\ pc = "loop"
    /\ i >= argc
    /\ out' = IF ReportWanted(states) THEN Append(out, print_report(states)) ELSE out
    /\ exit_status' = EXIT_SUCCESS
    /\ pc' = "done"
    /\ UNCHANGED <<argc, i, line, states, pending, nlines, history>>

ReadLine == \E ln \in Lines \cup {BulkFile[k] : k \in DOMAIN BulkFile} :
                Ingest(ln) \/ AllocFail(ln) \/ Crash(ln)

Next ==
    \/ Usage
    \/ EnterLoop
    \/ OpenFail
    \/ OpenOk
    \/ ReadLine
    \/ EndOfFile
    \/ Finish

Spec == Init /\ [][Next]_vars

\* ------------------------------------------------------------ vocabulary
\* The process has not died on a fault: its memory, the Store, exists.
Alive == pc # "crashed"

\* Every line folded so far was well-formed.
Clean == Alive /\ \A k \in 1 .. Len(history) : WellFormed(history[k].tokens)

\* Nor did the line in the buffer, if one was read, lack a token.
AllWellFormed == Clean /\ (WellFormed(line) \/ nlines = 0)

Held == {k \in 1 .. NUM_STATES : states[k] # NULL}
Info(k) == states[k][1]
HeldCodes == {Info(k).code : k \in Held}
Full == Held = 1 .. NUM_STATES

\* The lines of the history that carry code c, in order.
Routed(c) == SelectSeq(history, LAMBDA h : Code(h.tokens) = c)

RECURSIVE TotalRecords(_)
TotalRecords(ks) ==
    IF ks = {} THEN 0
    ELSE LET k == CHOOSE x \in ks : TRUE
         IN Info(k).num_records + TotalRecords(ks \ {k})

\* The distinct codes of a sequence of lines, in the order of their first
\* occurrence.
RECURSIVE FirstSeen(_)
FirstSeen(h) ==
    IF h = <<>> THEN <<>>
    ELSE LET front == FirstSeen(SubSeq(h, 1, Len(h) - 1))
             c == Code(h[Len(h)].tokens)
         IN IF \E k \in 1 .. Len(front) : front[k] = c THEN front ELSE Append(front, c)

Prefix(q, n) == SubSeq(q, 1, IF Len(q) < n THEN Len(q) ELSE n)

\* A step in which fgets returned a line (now in the buffer `line`).
LineRead == pc = "read" /\ (nlines' = nlines + 1 \/ pending' # pending)

\* A step in which the loop body ran to its end for that line.
LineFolded == LineRead /\ pc' = "read"

Reports == {k \in 1 .. Len(out) : out[k].kind = "report"}
Reported == Reports # {}
AllocFailed == \E k \in 1 .. Len(out) : out[k].kind = "alloc_error"

\* The file arguments main tried to open, in order.
Attempts ==
    LET tried == SelectSeq(out, LAMBDA m : m.kind \in {"opening", "error"})
    IN [k \in 1 .. Len(tried) |-> tried[k].arg]

Flag(ln, k) == IF ln[k] # 0 THEN 1 ELSE 0

\* ------------------------------------------------------------------- C1
\* C1 as stated: in a run of well-formed lines, the num_records of all
\* accumulators sum to the number of lines folded, and each accumulator's
\* num_records is the number of folded lines that carry its code.
C1_Original ==
    Clean =>
        /\ TotalRecords(Held) = Len(history)
        /\ \A k \in Held : Info(k).num_records = Len(Routed(Info(k).code))

\* C1 amended: each accumulator's num_records is the number of folded lines
\* that carry its code; the sum over all accumulators is the number of folded
\* lines whose code the Store holds, which is every line as long as at most
\* NUM_STATES distinct codes occurred.
C1_Counts ==
    Clean =>
        /\ \A k \in Held : Info(k).num_records = Len(Routed(Info(k).code))
        /\ TotalRecords(Held)
             = Len(SelectSeq(history, LAMBDA h : Code(h.tokens) \in HeldCodes))
        /\ Len(FirstSeen(history)) <= NUM_STATES => TotalRecords(Held) = Len(history)

\* A line was dropped by the full Store, and a later one was counted.
C1_Witness ==
    /\ Clean
    /\ Len(FirstSeen(history)) > NUM_STATES
    /\ TotalRecords(Held) < Len(history)
    /\ \E k \in Held : Info(k).num_records >= 2

\* ------------------------------------------------------------------- C2
\* C2 as stated: a step that reads a line with fewer than NFIELDS tokens
\* leaves the Store as it was and the run goes on to the next line.
C2_MalformedSkipped ==
    [][(LineRead /\ ~WellFormed(line')) => (states' = states /\ pc' = "read")]_vars

\* ------------------------------------------------------------------- C3
\* C3: the accumulators fill the array from slot 0 without gaps, in the
\* order in which their codes first occurred (the first NUM_STATES distinct
\* codes); print_report lists codes and blocks in that order; and a slot,
\* once filled, keeps its code.
C3_StoreOrder ==
    /\ Held = 1 .. Cardinality(Held)
    /\ Clean =>
         /\ [k \in 1 .. Cardinality(Held) |-> Info(k).code]
              = Prefix(FirstSeen(history), NUM_STATES)
         /\ \A r \in Reports :
              /\ out[r].codes = Prefix(FirstSeen(history), NUM_STATES)
              /\ [k \in 1 .. Len(out[r].blocks) |-> out[r].blocks[k].code] = out[r].codes

C3_SlotKept ==
    \A k \in 1 .. NUM_STATES :
        states[k] # NULL => (states'[k] # NULL /\ states'[k][1].code = states[k][1].code)

C3_DiscoveryOrder == []C3_StoreOrder /\ [][C3_SlotKept]_vars

\* Codes folded in the order A, B, A over two files, and reported as A, B.
C3_Witness ==
    /\ Clean
    /\ Len(history) = 3
    /\ Code(history[1].tokens) = Code(history[3].tokens)
    /\ Code(history[1].tokens) # Code(history[2].tokens)
    /\ history[1].arg # history[3].arg
    /\ \E r \in Reports :
         out[r].codes = <<Code(history[1].tokens), Code(history[2].tokens)>>

\* ------------------------------------------------------------------- C4
\* C4: no two accumulators hold the same code; only the folding of a line
\* changes the Store, so it is never reset between files; and a line whose
\* code is held is folded into the slot that holds it, whichever file
\* created the slot.
C4_Unique ==
    \A k, m \in Held : Info(k).code = Info(m).code => k = m

C4_NoReset ==
    /\ ~LineRead => states' = states
    /\ \A k \in 1 .. NUM_STATES :
         (states[k] # NULL /\ pc' # "crashed")
            => /\ states'[k] # NULL
               /\ states'[k][1].num_records >= states[k][1].num_records
    /\ \A k \in Held :
         (LineFolded /\ Info(k).code = Code(line'))
            => /\ states'[k][1].num_records = Info(k).num_records + 1
               /\ \A m \in 1 .. NUM_STATES : m # k => states'[m] = states[m]

C4_OneAccumulatorPerCode == []C4_Unique /\ [][C4_NoReset]_vars

\* Two files each gave a line of the same code: one accumulator, 2 records.
C4_Witness ==
    /\ Clean
    /\ Len(history) = 2
    /\ history[1].arg = 1
    /\ history[2].arg = 2
    /\ Code(history[1].tokens) = Code(history[2].tokens)
    /\ Held = {1}
    /\ Info(1).num_records = 2

\* ------------------------------------------------------------------- C5
\* The position in r of the first line whose converted temperature is t.
FirstAt(r, t) ==
    CHOOSE k \in 1 .. Len(r) :
        /\ Fahrenheit(r[k].tokens) = t
        /\ \A m \in 1 .. (k - 1) : Fahrenheit(r[m].tokens) # t

\* C5: each accumulator's max_temperature (min_temperature) is the largest
\* (smallest) converted temperature of the lines folded into it, and
\* max_timestamp (min_timestamp) is the truncated timestamp of the first of
\* those lines that has it.
C5_Extrema ==
    Clean =>
        \A k \in Held :
            LET r == Routed(Info(k).code)
                temps == {Fahrenheit(r[m].tokens) : m \in 1 .. Len(r)}
            IN /\ Info(k).max_temperature \in temps
               /\ Info(k).min_temperature \in temps
               /\ \A t \in temps : /\ t <= Info(k).max_temperature
                                   /\ t >= Info(k).min_temperature
               /\ Info(k).max_timestamp
                    = r[FirstAt(r, Info(k).max_temperature)].tokens[F_TIME] \div 1000
               /\ Info(k).min_timestamp
                    = r[FirstAt(r, Info(k).min_temperature)].tokens[F_TIME] \div 1000

\* An accumulator took a warmer line and then two lines of one lower
\* temperature in different seconds: the minimum is tied, the earlier
\* second is kept.
C5_Witness ==
    /\ Clean
    /\ \E k \in Held :
         LET r == Routed(Info(k).code)
         IN /\ Len(r) = 3
            /\ Fahrenheit(r[2].tokens) = Fahrenheit(r[3].tokens)
            /\ Fahrenheit(r[1].tokens) > Fahrenheit(r[2].tokens)
            /\ Timestamp(r[2].tokens) # Timestamp(r[3].tokens)
            /\ Info(k).min_timestamp = Timestamp(r[2].tokens)
            /\ Info(k).max_timestamp = Timestamp(r[1].tokens)
            /\ r[1].tokens[F_TIME] # Info(k).max_timestamp * 1000

\* ------------------------------------------------------------------- C6
\* C6 as stated: a run with a file argument that ends, ends with the success
\* status, having printed the report iff the Store is not empty; a run
\* without one prints the usage, folds nothing, prints no report and ends
\* with the failure status.  Stated of the runs that read well-formed lines
\* only.
C6_Original ==
    (pc = "done" /\ AllWellFormed) =>
        IF argc >= 2
        THEN /\ exit_status = EXIT_SUCCESS
             /\ Reported <=> Held # {}
        ELSE /\ exit_status = EXIT_FAILURE
             /\ out = <<Msg("usage", 0)>>
             /\ Held = {}
             /\ history = <<>>

\* C6 amended: a run with a file argument that returns from main ends with
\* the success status, having printed the report once iff the Store is not
\* empty (iff a line was folded, when all lines are well-formed); a run in
\* which malloc fails ends with the failure status and no report; a run
\* without a file argument prints the usage, folds nothing, prints no report
\* and ends with the failure status.  No status is set and no report printed
\* before the run ends.
C6_ExitAndReport ==
    /\ pc = "done" =>
         IF argc >= 2
         THEN IF AllocFailed
              THEN exit_status = EXIT_FAILURE /\ ~Reported
              ELSE /\ exit_status = EXIT_SUCCESS
                   /\ Reported <=> Held # {}
                   /\ Cardinality(Reports) <= 1
                   /\ Clean => (Reported <=> history # <<>>)
         ELSE /\ exit_status = EXIT_FAILURE
              /\ out = <<Msg("usage", 0)>>
              /\ Held = {}
              /\ history = <<>>
    /\ pc # "done" => (exit_status = NO_STATUS /\ ~Reported)

\* Two files were opened, neither held a line: success, and no report.
C6_Witness ==
    /\ pc = "done"
    /\ argc = 3
    /\ Attempts = <<1, 2>>
    /\ out = <<Msg("opening", 1), Msg("opening", 2)>>
    /\ exit_status = EXIT_SUCCESS
    /\ Held = {}

\* ------------------------------------------------------------------- C7
\* C7: a failed fopen changes nothing but the loop variable, which moves to
\* the next argument with the run going on; arguments are tried one by one
\* in argument order, and only from main's loop, that is after fgets has
\* returned NULL for the file before; a run that returns from main has tried
\* every argument.
C7_Skip ==
    /\ (pc = "loop" /\ out' = Append(out, Msg("error", i)))
          => /\ states' = states
             /\ history' = history
             /\ i' = i + 1
             /\ pc' = "loop"
             /\ exit_status' = exit_status
    /\ (pc # "main" /\ i' # i)
          => /\ i' = i + 1
             /\ pc' = "loop"
             /\ pc = "loop" \/ (pc = "read" /\ ~LineRead)
    /\ Attempts' # Attempts => (pc = "loop" /\ Attempts' = Append(Attempts, i))

C7_InOrder ==
    /\ pc = "loop" => Attempts = [k \in 1 .. (i - 1) |-> k]
    /\ pc = "read" => (Attempts = [k \in 1 .. i |-> k] /\ out[Len(out)] = Msg("opening", i))
    /\ (pc = "done" /\ exit_status = EXIT_SUCCESS) => Attempts = [k \in 1 .. (argc - 1) |-> k]
    /\ \A k \in 1 .. Len(history) :
         /\ Msg("opening", history[k].arg) \in {out[m] : m \in 1 .. Len(out)}
         /\ \A m \in 1 .. (k - 1) : history[m].arg <= history[k].arg

C7_UnopenableSkipped == []C7_InOrder /\ [][C7_Skip]_vars

\* The first argument could not be opened, the second was read and reported.
C7_Witness ==
    /\ pc = "done"
    /\ argc = 3
    /\ exit_status = EXIT_SUCCESS
    /\ out[1] = Msg("error", 1)
    /\ out[2] = Msg("opening", 2)
    /\ Len(history) >= 2
    /\ \A k \in 1 .. Len(history) : history[k].arg = 2
    /\ Reported

\* ------------------------------------------------------------------- C8
C8_Created(ln, t) ==
    /\ t.code = Code(ln)
    /\ t.num_records = 1
    /\ t.sum_humidity = ln[F_HUMIDITY]
    /\ t.sum_cloud_cover = ln[F_CLOUD]
    /\ t.sum_temperature = Fahrenheit(ln)
    /\ t.snow_records = Flag(ln, F_SNOW)
    /\ t.lightning_strikes = Flag(ln, F_LIGHTNING)

C8_Folded(ln, s, t) ==
    /\ t.code = s.code
    /\ t.num_records = s.num_records + 1
    /\ t.sum_humidity = s.sum_humidity + ln[F_HUMIDITY]
    /\ t.sum_cloud_cover = s.sum_cloud_cover + ln[F_CLOUD]
    /\ t.sum_temperature = s.sum_temperature + Fahrenheit(ln)
    /\ t.snow_records = s.snow_records + Flag(ln, F_SNOW)
    /\ t.lightning_strikes = s.lightning_strikes + Flag(ln, F_LIGHTNING)

C8_Step ==
    (LineFolded /\ WellFormed(line')) =>
        IF Code(line') \in HeldCodes
        THEN \A k \in Held :
                Info(k).code = Code(line') => C8_Folded(line', Info(k), states'[k][1])
        ELSE ~Full =>
                /\ states'[Cardinality(Held) + 1] # NULL
                /\ C8_Created(line', states'[Cardinality(Held) + 1][1])

C8_Counters ==
    /\ Alive =>
         \A k \in Held : /\ Info(k).snow_records <= Info(k).num_records
                         /\ Info(k).lightning_strikes <= Info(k).num_records
    /\ Clean =>
         \A k \in Held :
            LET r == Routed(Info(k).code)
            IN /\ Info(k).snow_records
                    = Len(SelectSeq(r, LAMBDA h : h.tokens[F_SNOW] # 0))
               /\ Info(k).lightning_strikes
                    = Len(SelectSeq(r, LAMBDA h : h.tokens[F_LIGHTNING] # 0))

C9_NonEmptyAccumulators ==
    Alive =>
        \A k \in Held : /\ Info(k).num_records >= 1
                        /\ Info(k).max_temperature >= Info(k).min_temperature

\* An accumulator whose second line was colder than its first.
C9_Witness ==
    /\ Alive
    /\ \E k \in Held :
         /\ Info(k).num_records = 2
         /\ Info(k).max_temperature > Info(k).min_temperature
         /\ Info(k).min_timestamp > Info(k).max_timestamp

\* ------------------------------------------------------------------ C10
C10_Step ==
    (LineRead /\ Full /\ WellFormed(line')) =>
        /\ pc' = "read"
        /\ Code(line') \notin HeldCodes => states' = states
        /\ \A k \in Held :
             Info(k).code = Code(line')
                => /\ C8_Folded(line', Info(k), states'[k][1])
                   /\ \A m \in 1 .. NUM_STATES : m # k => states'[m] = states[m]

\* C10: the Store never holds more than NUM_STATES accumulators; when it
\* holds NUM_STATES, a well-formed line of a code it does not hold changes
\* nothing in it and the run goes on, and a line of a held code is folded
\* into its accumulator as ever.
C10_Capacity ==
    [](Cardinality(HeldCodes) <= NUM_STATES /\ Cardinality(Held) = Cardinality(HeldCodes))
        /\ [][C10_Step]_vars

\* The Store is full; the line before last was of a code it does not hold,
\* the last of a code it holds.
C10_Witness ==
    /\ Clean
    /\ Full
    /\ Len(history) = NUM_STATES + 2
    /\ Code(history[NUM_STATES + 1].tokens) \notin HeldCodes
    /\ \E k \in Held : /\ Info(k).code = Code(history[NUM_STATES + 2].tokens)
                       /\ Info(k).num_records = 2

====
